---- MODULE Spec2Model ----
(***************************************************************************)
(* RenderWake (addon/renderwake.py): the platform wake-lock backends, the  *)
(* render handlers that drive the one shared lock, and the host events     *)
(* (register, render-pre/post/cancel, unregister, exit) around them.       *)
(*                                                                         *)
(* Two specifications:                                                     *)
(*   SpecBackend  a backend instance called directly through its public    *)
(*                surface acquire / release / is_active, in any order;     *)
(*   Spec         the add-on as Blender runs it: the module-level lock     *)
(*                made by make_wakelock, driven only by the handlers.      *)
(***************************************************************************)
EXTENDS Integers, Sequences, FiniteSets, TLC

\* ---------------------------------------------------------------- bounds
\* Helper processes one run may spawn (the process table is a sequence).
MaxSpawn == 2
\* register() calls one run may make (each adds one atexit entry).
MaxRegister == 2

\* ------------------------------------------------------------- constants
None == 0

\* WakeLockWindows.ES_CONTINUOUS / ES_SYSTEM_REQUIRED: the two bits of the
\* thread execution state, kept as a set of flag names.
ES_CONTINUOUS == "ES_CONTINUOUS"
ES_SYSTEM_REQUIRED == "ES_SYSTEM_REQUIRED"

\* sys.platform values, as character sequences so that startswith is computed.
Win32 == <<"w", "i", "n", "3", "2">>
Darwin == <<"d", "a", "r", "w", "i", "n">>
Linux == <<"l", "i", "n", "u", "x">>
FreeBSD == <<"f", "r", "e", "e", "b", "s", "d">>
Platforms == {Win32, Darwin, Linux, FreeBSD}

BackendClasses == {"WakeLockBase", "WakeLockWindows", "WakeLockMac", "WakeLockLinux"}

\* A helper process: running, sent SIGTERM but not yet gone, or gone.
Statuses == {"running", "terminating", "exited"}

VARIABLES
    platform,     \* sys.platform
    cls,          \* the class of _wakelock
    kernel32,     \* WakeLockWindows._kernel32 is bound (not None)
    active,       \* WakeLockWindows._active
    proc,         \* WakeLockMac/_Linux._proc: None, or the index of a helper
    esFlags,      \* OS: the thread execution state of the host thread
    helpers,      \* OS: every helper process spawned so far, by index
    toolPresent,  \* OS: caffeinate / systemd-inhibit is on the search path
    prefsAvail,   \* bpy.context.preferences.addons.get(...) yields preferences
    prefs,        \* KeepAwakePreferences: enabled, show_indicator, verbose
    handlers,     \* which of bpy.app.handlers.render_* hold our handler
    atexitHooks,  \* atexit entries holding _release
    phase,        \* loaded, registered, unregistered, exiting, exited, crashed
    exitPending,  \* atexit entries still to run while exiting
    rendering,    \* host: a render job is in progress
    jobArmed,     \* the job in progress began with an effective render-pre
    op,           \* the last public operation that ran
    eff,          \* what that operation did to the backend and the OS
    tick          \* flips at every public operation

backendVars == <<active, proc, esFlags, helpers>>
fixedVars == <<platform, cls, kernel32>>
envVars == <<toolPresent, prefsAvail, prefs>>
hostVars == <<handlers, atexitHooks, phase, exitPending, rendering, jobArmed>>
vars == <<platform, cls, kernel32, active, proc, esFlags, helpers, toolPresent,
          prefsAvail, prefs, handlers, atexitHooks, phase, exitPending,
          rendering, jobArmed, op, eff, tick>>

\* What one operation did: the backend method it reached, whether an exception
\* left it, and its calls on the OS (SetThreadExecutionState, Popen, terminate).
Quiet == [call |-> "none", raised |-> FALSE, native |-> 0, spawns |-> 0, terms |-> 0]

\* ------------------------------------------------------------ primitives
\* str.startswith
StartsWith(s, p) == Len(s) >= Len(p) /\ SubSeq(s, 1, Len(p)) = p

\* Popen.poll() is None: the child has not exited.
PollIsNone(p) == helpers[p] \in {"running", "terminating"}

\* kernel32.SetThreadExecutionState(flags): the return value, NULL on failure,
\* is not looked at; on failure the state is left as it was.
SetThreadExecutionState(flags) ==
    \E ok \in BOOLEAN : esFlags' = IF ok THEN flags ELSE esFlags

\* subprocess.Popen([...]) returning a child; assigned to self._proc.
PopenSpawns ==
    /\ Len(helpers) < MaxSpawn
    /\ helpers' = Append(helpers, "running")
    /\ proc' = Len(helpers) + 1

\* self._proc.terminate() inside try/except: SIGTERM is delivered, or the call
\* raises and the exception is swallowed.
Terminate(p) ==
    \E ok \in BOOLEAN :
        helpers' = IF ok THEN [helpers EXCEPT ![p] = "terminating"] ELSE helpers

\* ---------------------------------------------------------- WakeLockBase
BaseAcquire ==
    /\ eff' = [Quiet EXCEPT !.call = "acquire"]
    /\ UNCHANGED backendVars

BaseRelease ==
    /\ eff' = [Quiet EXCEPT !.call = "release"]
    /\ UNCHANGED backendVars

BaseIsActive == FALSE

\* ------------------------------------------------------- WakeLockWindows
WindowsAcquire ==
    IF ~kernel32
    THEN /\ eff' = [Quiet EXCEPT !.call = "acquire"]
         /\ UNCHANGED backendVars
    ELSE /\ SetThreadExecutionState({ES_CONTINUOUS, ES_SYSTEM_REQUIRED})
         /\ active' = TRUE
         /\ eff' = [Quiet EXCEPT !.call = "acquire", !.native = 1]
         /\ UNCHANGED <<proc, helpers>>

WindowsRelease ==
    IF ~kernel32
    THEN /\ eff' = [Quiet EXCEPT !.call = "release"]
         /\ UNCHANGED backendVars
    ELSE /\ SetThreadExecutionState({ES_CONTINUOUS})
         /\ active' = FALSE
         /\ eff' = [Quiet EXCEPT !.call = "release", !.native = 1]
         /\ UNCHANGED <<proc, helpers>>

WindowsIsActive == active

\* ----------------------------------------------------------- WakeLockMac
\* MacAcquire that takes any handle for a live helper (no poll()).
MacAcquire_NoPoll ==
    IF proc # None
    THEN /\ eff' = [Quiet EXCEPT !.call = "acquire"]
         /\ UNCHANGED backendVars
    ELSE \/ /\ toolPresent
            /\ PopenSpawns
            /\ eff' = [Quiet EXCEPT !.call = "acquire", !.spawns = 1]
            /\ UNCHANGED <<active, esFlags>>
         \/ /\ eff' = [Quiet EXCEPT !.call = "acquire", !.raised = TRUE]
            /\ UNCHANGED backendVars

\* Popen raises FileNotFoundError when caffeinate is missing and may raise
\* OSError otherwise; nothing catches it, and self._proc keeps its old value.
MacAcquire ==
    IF proc # None /\ PollIsNone(proc)
    THEN /\ eff' = [Quiet EXCEPT !.call = "acquire"]
         /\ UNCHANGED backendVars
    ELSE \/ /\ toolPresent
            /\ PopenSpawns
            /\ eff' = [Quiet EXCEPT !.call = "acquire", !.spawns = 1]
            /\ UNCHANGED <<active, esFlags>>
         \/ /\ eff' = [Quiet EXCEPT !.call = "acquire", !.raised = TRUE]
            /\ UNCHANGED backendVars

\* MacRelease without the "self._proc and" guard: terminate() on a missing or
\* finished child raises.
MacRelease_Unguarded ==
    IF proc # None /\ PollIsNone(proc)
    THEN /\ Terminate(proc)
         /\ eff' = [Quiet EXCEPT !.call = "release", !.terms = 1]
         /\ proc' = None
         /\ UNCHANGED <<active, esFlags>>
    ELSE /\ eff' = [Quiet EXCEPT !.call = "release", !.raised = TRUE]
         /\ UNCHANGED backendVars

MacRelease ==
    /\ IF proc # None /\ PollIsNone(proc)
       THEN /\ Terminate(proc)
            /\ eff' = [Quiet EXCEPT !.call = "release", !.terms = 1]
       ELSE /\ helpers' = helpers
            /\ eff' = [Quiet EXCEPT !.call = "release"]
    /\ proc' = None
    /\ UNCHANGED <<active, esFlags>>

MacIsActive == proc # None /\ PollIsNone(proc)

\* --------------------------------------------------------- WakeLockLinux
\* shutil.which("systemd-inhibit") is not None
HasCmd == toolPresent

LinuxAcquire ==
    IF proc # None /\ PollIsNone(proc)
    THEN /\ eff' = [Quiet EXCEPT !.call = "acquire"]
         /\ UNCHANGED backendVars
    ELSE IF HasCmd
         THEN \/ /\ PopenSpawns
                 /\ eff' = [Quiet EXCEPT !.call = "acquire", !.spawns = 1]
                 /\ UNCHANGED <<active, esFlags>>
              \/ /\ eff' = [Quiet EXCEPT !.call = "acquire", !.raised = TRUE]
                 /\ UNCHANGED backendVars
         ELSE /\ proc' = None
              /\ eff' = [Quiet EXCEPT !.call = "acquire"]
              /\ UNCHANGED <<active, esFlags, helpers>>

\* LinuxRelease that forgets "self._proc = None" after terminate().
LinuxRelease_KeepsHandle ==
    /\ IF proc # None /\ PollIsNone(proc)
       THEN /\ Terminate(proc)
            /\ eff' = [Quiet EXCEPT !.call = "release", !.terms = 1]
       ELSE /\ helpers' = helpers
            /\ eff' = [Quiet EXCEPT !.call = "release"]
    /\ UNCHANGED <<active, proc, esFlags>>

LinuxRelease ==
    /\ IF proc # None /\ PollIsNone(proc)
       THEN /\ Terminate(proc)
            /\ eff' = [Quiet EXCEPT !.call = "release", !.terms = 1]
       ELSE /\ helpers' = helpers
            /\ eff' = [Quiet EXCEPT !.call = "release"]
    /\ proc' = None
    /\ UNCHANGED <<active, esFlags>>

LinuxIsActive == proc # None /\ PollIsNone(proc)

\* ------------------------------------------------- is_active(), the call
\* Each is_active() is one expression over the backend's fields (and poll());
\* it assigns nothing.
BaseIsActiveCall ==
    /\ eff' = [Quiet EXCEPT !.call = "is_active"]
    /\ UNCHANGED backendVars

WindowsIsActiveCall ==
    /\ eff' = [Quiet EXCEPT !.call = "is_active"]
    /\ UNCHANGED backendVars

\* MacIsActiveCall that drops the handle once poll() reports the child gone.
MacIsActiveCall_DropsDeadHandle ==
    /\ eff' = [Quiet EXCEPT !.call = "is_active"]
    /\ proc' = IF proc # None /\ ~PollIsNone(proc) THEN None ELSE proc
    /\ UNCHANGED <<active, esFlags, helpers>>

MacIsActiveCall ==
    /\ eff' = [Quiet EXCEPT !.call = "is_active"]
    /\ UNCHANGED backendVars

LinuxIsActiveCall ==
    /\ eff' = [Quiet EXCEPT !.call = "is_active"]
    /\ UNCHANGED backendVars

\* ------------------------------------------- _wakelock, by its class
WakeLockAcquire ==
    CASE cls = "WakeLockWindows" -> WindowsAcquire
      [] cls = "WakeLockMac" -> MacAcquire
      [] cls = "WakeLockLinux" -> LinuxAcquire
      [] OTHER -> BaseAcquire

WakeLockRelease ==
    CASE cls = "WakeLockWindows" -> WindowsRelease
      [] cls = "WakeLockMac" -> MacRelease
      [] cls = "WakeLockLinux" -> LinuxRelease
      [] OTHER -> BaseRelease

IsActive ==
    CASE cls = "WakeLockWindows" -> WindowsIsActive
      [] cls = "WakeLockMac" -> MacIsActive
      [] cls = "WakeLockLinux" -> LinuxIsActive
      [] OTHER -> BaseIsActive

WakeLockIsActiveCall ==
    CASE cls = "WakeLockWindows" -> WindowsIsActiveCall
      [] cls = "WakeLockMac" -> MacIsActiveCall
      [] cls = "WakeLockLinux" -> LinuxIsActiveCall
      [] OTHER -> BaseIsActiveCall

\* make_wakelock that falls back to the base class on an unrecognised platform.
make_wakelock_BaseFallback(p) ==
    IF StartsWith(p, <<"w", "i", "n">>) THEN "WakeLockWindows"
    ELSE IF p = Darwin THEN "WakeLockMac"
    ELSE IF StartsWith(p, Linux) THEN "WakeLockLinux"
    ELSE "WakeLockBase"

\* make_wakelock(): the class chosen for sys.platform.
make_wakelock(p) ==
    IF StartsWith(p, <<"w", "i", "n">>) THEN "WakeLockWindows"
    ELSE IF p = Darwin THEN "WakeLockMac"
    ELSE "WakeLockLinux"

\* ----------------------------------------------------------- environment
\* The host process has not ended; a helper process has not exited.
HostAlive == phase \in {"loaded", "registered", "unregistered", "exiting"}
HelperAlive(i) == helpers[i] \in {"running", "terminating"}

\* A running helper exits on its own or is killed from outside.
HelperExitsExternally ==
    /\ \E i \in 1..Len(helpers) :
        /\ helpers[i] = "running"
        /\ helpers' = [helpers EXCEPT ![i] = "exited"]
        /\ jobArmed' = (jobArmed /\ proc # i)
    /\ UNCHANGED <<fixedVars, active, proc, esFlags, envVars, handlers,
                   atexitHooks, phase, exitPending, rendering, op, eff, tick>>

\* A helper that was sent SIGTERM goes away.
HelperTerminates ==
    /\ \E i \in 1..Len(helpers) :
        /\ helpers[i] = "terminating"
        /\ helpers' = [helpers EXCEPT ![i] = "exited"]
        /\ jobArmed' = (jobArmed /\ proc # i)
    /\ UNCHANGED <<fixedVars, active, proc, esFlags, envVars, handlers,
                   atexitHooks, phase, exitPending, rendering, op, eff, tick>>

\* The inhibitor tool is installed or removed.
ToolChanges ==
    /\ toolPresent' = ~toolPresent
    /\ UNCHANGED <<fixedVars, backendVars, prefsAvail, prefs, hostVars, op, eff, tick>>

\* ------------------------------------------------- the backend, directly
Acquire ==
    /\ HostAlive
    /\ WakeLockAcquire
    /\ op' = "acquire"
    /\ tick' = ~tick
    /\ UNCHANGED <<fixedVars, envVars, hostVars>>

Release ==
    /\ HostAlive
    /\ WakeLockRelease
    /\ op' = "release"
    /\ tick' = ~tick
    /\ UNCHANGED <<fixedVars, envVars, hostVars>>

is_active ==
    /\ HostAlive
    /\ WakeLockIsActiveCall
    /\ op' = "is_active"
    /\ tick' = ~tick
    /\ UNCHANGED <<fixedVars, envVars, hostVars>>

InitCommon ==
    /\ platform \in Platforms
    /\ active = FALSE
    /\ proc = None
    /\ esFlags = {}
    /\ helpers = <<>>
    /\ toolPresent \in BOOLEAN
    /\ prefsAvail \in BOOLEAN
    /\ prefs = [enabled |-> TRUE, show_indicator |-> TRUE, verbose |-> FALSE]
    /\ handlers = {}
    /\ atexitHooks = 0
    /\ phase = "loaded"
    /\ exitPending = 0
    /\ rendering = FALSE
    /\ jobArmed = FALSE
    /\ op = "init"
    /\ eff = Quiet
    /\ tick = FALSE

\* WakeLockWindows.__init__: ctypes.windll exists only on Windows, and the
\* binding may fail to load there too.
Kernel32Loads(c, p) ==
    IF c = "WakeLockWindows" /\ StartsWith(p, <<"w", "i", "n">>) THEN BOOLEAN ELSE {FALSE}

\* Any backend class, constructed directly.
InitBackend ==
    /\ InitCommon
    /\ cls \in BackendClasses
    /\ kernel32 \in Kernel32Loads(cls, platform)

NextBackend ==
    \/ Acquire
    \/ Release
    \/ is_active
    \/ HelperExitsExternally
    \/ HelperTerminates
    \/ ToolChanges

SpecBackend == InitBackend /\ [][NextBackend]_vars

\* ------------------------------------------------------- render handlers
\* _safe_get_prefs() returned preferences and their "enabled" is true.
PrefsEnabled == prefsAvail /\ prefs.enabled

\* _acquire_if_enabled that takes missing preferences for the defaults
\* (enabled is True by default) instead of returning.
_acquire_if_enabled_DefaultOn ==
    IF prefsAvail /\ ~prefs.enabled
    THEN /\ eff' = Quiet
         /\ UNCHANGED backendVars
    ELSE IF ~IsActive
         THEN WakeLockAcquire
         ELSE /\ eff' = Quiet
              /\ UNCHANGED backendVars

\* _acquire_if_enabled with the is_active() test the wrong way round.
_acquire_if_enabled_Inverted ==
    IF ~PrefsEnabled
    THEN /\ eff' = Quiet
         /\ UNCHANGED backendVars
    ELSE IF IsActive
         THEN WakeLockAcquire
         ELSE /\ eff' = Quiet
              /\ UNCHANGED backendVars

\* _acquire_if_enabled(); _log and the status-bar redraw change no state here.
_acquire_if_enabled ==
    IF ~PrefsEnabled
    THEN /\ eff' = Quiet
         /\ UNCHANGED backendVars
    ELSE IF ~IsActive
         THEN WakeLockAcquire
         ELSE /\ eff' = Quiet
              /\ UNCHANGED backendVars

\* _release that consults the "enabled" preference, as _acquire_if_enabled does.
_release_IfEnabled ==
    IF PrefsEnabled /\ IsActive
    THEN WakeLockRelease
    ELSE /\ eff' = Quiet
         /\ UNCHANGED backendVars

\* _release without the is_active() check.
_release_Unguarded == WakeLockRelease

\* _release()
_release ==
    IF IsActive
    THEN WakeLockRelease
    ELSE /\ eff' = Quiet
         /\ UNCHANGED backendVars

on_render_pre == _acquire_if_enabled
on_render_post == _release
\* on_render_cancel that does not release.
on_render_cancel_Forgets ==
    /\ eff' = Quiet
    /\ UNCHANGED backendVars

on_render_cancel == _release

\* The inhibition mechanism answered the acquire this step made: the binding
\* is loaded, or the tool is there and Popen returned a child.
MechanismAnswered ==
    CASE cls = "WakeLockWindows" -> kernel32
      [] cls \in {"WakeLockMac", "WakeLockLinux"} -> toolPresent /\ ~eff'.raised
      [] OTHER -> FALSE

\* ------------------------------------------------------------ host events
HostRunning == phase \in {"loaded", "registered", "unregistered"}

\* Blender starts rendering and runs bpy.app.handlers.render_pre.
RenderPre ==
    /\ HostRunning
    /\ rendering' = TRUE
    /\ IF "render_pre" \in handlers
       THEN /\ on_render_pre
            /\ op' = "on_render_pre"
            /\ tick' = ~tick
       ELSE UNCHANGED <<backendVars, op, eff, tick>>
    /\ jobArmed' = IF rendering
                   THEN jobArmed
                   ELSE "render_pre" \in handlers /\ PrefsEnabled /\ MechanismAnswered
    /\ UNCHANGED <<fixedVars, envVars, handlers, atexitHooks, phase, exitPending>>

\* Blender finishes a render and runs bpy.app.handlers.render_post.
RenderPost ==
    /\ HostRunning
    /\ rendering' = FALSE
    /\ jobArmed' = FALSE
    /\ IF "render_post" \in handlers
       THEN /\ on_render_post
            /\ op' = "on_render_post"
            /\ tick' = ~tick
       ELSE UNCHANGED <<backendVars, op, eff, tick>>
    /\ UNCHANGED <<fixedVars, envVars, handlers, atexitHooks, phase, exitPending>>

\* Blender cancels a render and runs bpy.app.handlers.render_cancel.
RenderCancel ==
    /\ HostRunning
    /\ rendering' = FALSE
    /\ jobArmed' = FALSE
    /\ IF "render_cancel" \in handlers
       THEN /\ on_render_cancel
            /\ op' = "on_render_cancel"
            /\ tick' = ~tick
       ELSE UNCHANGED <<backendVars, op, eff, tick>>
    /\ UNCHANGED <<fixedVars, envVars, handlers, atexitHooks, phase, exitPending>>

\* register() without atexit.register(_release).
register_NoAtexit ==
    /\ phase \in {"loaded", "unregistered"}
    /\ atexitHooks < MaxRegister
    /\ handlers' = handlers \cup {"render_pre", "render_post", "render_cancel"}
    /\ phase' = "registered"
    /\ op' = "register"
    /\ eff' = Quiet
    /\ tick' = ~tick
    /\ UNCHANGED <<fixedVars, backendVars, envVars, atexitHooks, exitPending,
                   rendering, jobArmed>>

\* register(): the three handlers are added (once each), _release goes on the
\* atexit list.
register ==
    /\ phase \in {"loaded", "unregistered"}
    /\ atexitHooks < MaxRegister
    /\ handlers' = handlers \cup {"render_pre", "render_post", "render_cancel"}
    /\ atexitHooks' = atexitHooks + 1
    /\ phase' = "registered"
    /\ op' = "register"
    /\ eff' = Quiet
    /\ tick' = ~tick
    /\ UNCHANGED <<fixedVars, backendVars, envVars, exitPending, rendering, jobArmed>>

\* unregister() that leaves on_render_pre in bpy.app.handlers.render_pre.
unregister_KeepsPreHandler ==
    /\ phase = "registered"
    /\ _release
    /\ handlers' = handlers \ {"render_post", "render_cancel"}
    /\ phase' = "unregistered"
    /\ jobArmed' = FALSE
    /\ op' = "unregister"
    /\ tick' = ~tick
    /\ UNCHANGED <<fixedVars, envVars, atexitHooks, exitPending, rendering>>

\* unregister(): _release() first, then the three handlers are removed; the
\* atexit entry stays.
unregister ==
    /\ phase = "registered"
    /\ _release
    /\ handlers' = handlers \ {"render_pre", "render_post", "render_cancel"}
    /\ phase' = "unregistered"
    /\ jobArmed' = FALSE
    /\ op' = "unregister"
    /\ tick' = ~tick
    /\ UNCHANGED <<fixedVars, envVars, atexitHooks, exitPending, rendering>>

\* The interpreter shuts down normally and starts running the atexit list.
Exit ==
    /\ HostRunning
    /\ phase' = "exiting"
    /\ exitPending' = atexitHooks
    /\ jobArmed' = FALSE
    /\ UNCHANGED <<fixedVars, backendVars, envVars, handlers, atexitHooks,
                   rendering, op, eff, tick>>

\* One atexit entry runs: _release().
AtExit ==
    /\ phase = "exiting"
    /\ exitPending > 0
    /\ _release
    /\ exitPending' = exitPending - 1
    /\ op' = "atexit"
    /\ tick' = ~tick
    /\ UNCHANGED <<fixedVars, envVars, handlers, atexitHooks, phase, rendering, jobArmed>>

\* The atexit list is done and the process is gone; the thread execution state
\* goes with its thread, helper processes stay behind.
ProcessEnds ==
    /\ phase = "exiting"
    /\ exitPending = 0
    /\ phase' = "exited"
    /\ esFlags' = {}
    /\ rendering' = FALSE
    /\ UNCHANGED <<fixedVars, active, proc, helpers, envVars, handlers, atexitHooks,
                   exitPending, jobArmed, op, eff, tick>>

\* The host process is killed or crashes: no atexit entry runs.
Crash ==
    /\ HostAlive
    /\ phase' = "crashed"
    /\ esFlags' = {}
    /\ rendering' = FALSE
    /\ jobArmed' = FALSE
    /\ UNCHANGED <<fixedVars, active, proc, helpers, envVars, handlers, atexitHooks,
                   exitPending, op, eff, tick>>

\* An "enabled" update callback that releases the lock when the property is
\* switched off, instead of only redrawing the status bar.
SetPreference_ReleasesOnDisable ==
    /\ HostRunning
    /\ \E f \in {"enabled", "show_indicator", "verbose"} :
        /\ prefs' = [prefs EXCEPT ![f] = ~prefs[f]]
        /\ IF f = "enabled" /\ prefs.enabled /\ IsActive
           THEN WakeLockRelease
           ELSE UNCHANGED <<backendVars, eff>>
    /\ UNCHANGED <<fixedVars, toolPresent, prefsAvail, hostVars, op, tick>>

\* The user flips one of the KeepAwakePreferences properties.
SetPreference ==
    /\ HostRunning
    /\ \E f \in {"enabled", "show_indicator", "verbose"} :
        prefs' = [prefs EXCEPT ![f] = ~prefs[f]]
    /\ UNCHANGED <<fixedVars, backendVars, toolPresent, prefsAvail, hostVars, op, eff, tick>>

\* The preferences store becomes reachable or unreachable.
PrefsAvailabilityChanges ==
    /\ HostAlive
    /\ prefsAvail' = ~prefsAvail
    /\ UNCHANGED <<fixedVars, backendVars, toolPresent, prefs, hostVars, op, eff, tick>>

\* _wakelock = make_wakelock(), at import.
Init ==
    /\ InitCommon
    /\ cls = make_wakelock(platform)
    /\ kernel32 \in Kernel32Loads(cls, platform)

Next ==
    \/ register
    \/ unregister
    \/ RenderPre
    \/ RenderPost
    \/ RenderCancel
    \/ Exit
    \/ AtExit
    \/ ProcessEnds
    \/ Crash
    \/ SetPreference
    \/ PrefsAvailabilityChanges
    \/ HelperExitsExternally
    \/ HelperTerminates
    \/ ToolChanges

Spec == Init /\ [][Next]_vars

TypeOK ==
    /\ platform \in Platforms
    /\ cls \in BackendClasses
    /\ kernel32 \in BOOLEAN
    /\ active \in BOOLEAN
    /\ proc \in 0..Len(helpers)
    /\ esFlags \subseteq {ES_CONTINUOUS, ES_SYSTEM_REQUIRED}
    /\ helpers \in Seq(Statuses)
    /\ toolPresent \in BOOLEAN
    /\ prefsAvail \in BOOLEAN
    /\ handlers \subseteq {"render_pre", "render_post", "render_cancel"}
    /\ atexitHooks \in Nat
    /\ exitPending \in 0..atexitHooks
    /\ rendering \in BOOLEAN
    /\ jobArmed \in BOOLEAN
    /\ eff.call \in {"none", "acquire", "release", "is_active"}

\* ================================================================ claims
\* A step that is the public operation o.
OpStep(o) == tick' # tick /\ op' = o

\* The inhibition mechanism of the lock's own backend is engaged.
MechanismEngaged ==
    CASE cls = "WakeLockWindows" -> ES_SYSTEM_REQUIRED \in esFlags
      [] cls \in {"WakeLockMac", "WakeLockLinux"} ->
            \E i \in 1..Len(helpers) : HelperAlive(i)
      [] OTHER -> FALSE

\* C1: while a render job is in progress that began with a render-pre at which
\* "enabled" was true and the mechanism answered (and the helper has not exited
\* since), is_active() is true; whenever no job is in progress, it is false.
C1_AwakeExactlyWhileRendering ==
    /\ (HostRunning /\ rendering /\ jobArmed) => IsActive
    /\ (HostAlive /\ ~rendering) => ~IsActive

C1_Witness ==
    /\ phase = "registered"
    /\ rendering
    /\ jobArmed
    /\ op = "on_render_pre"
    /\ eff.call = "acquire"
    /\ IsActive

\* C2: a second acquire() right after one that left the lock active changes
\* nothing: the lock stays active, no helper is spawned, and the native
\* execution-state call is not made again.
C2_SecondAcquireDoesNothing ==
    [][(op = "acquire" /\ IsActive /\ OpStep("acquire"))
        => /\ IsActive'
           /\ eff'.spawns = 0
           /\ eff'.native = 0
           /\ ~eff'.raised
           /\ UNCHANGED backendVars]_vars

\* C3 as claimed: release() on an inactive lock raises nothing, leaves the
\* active flag and the handle as they were, and makes no native call and no
\* terminate.
C3_ReleaseInactiveTouchesNothing ==
    [][(~IsActive /\ OpStep("release"))
        => /\ ~eff'.raised
           /\ eff'.native = 0
           /\ eff'.terms = 0
           /\ UNCHANGED backendVars]_vars

\* C3 as amended: release() on an inactive lock raises nothing, leaves
\* is_active() false and the active flag as it was, spawns and terminates no
\* process and never sets the system-required flag; the handle is left as it
\* was, or a handle to a helper that has exited is cleared; only the Windows
\* backend with its binding loaded makes a native call.
C3_ReleaseInactiveIsHarmless ==
    [][(~IsActive /\ OpStep("release"))
        => /\ ~eff'.raised
           /\ ~IsActive'
           /\ active' = active
           /\ eff'.terms = 0
           /\ eff'.spawns = 0
           /\ helpers' = helpers
           /\ (ES_SYSTEM_REQUIRED \in esFlags' => ES_SYSTEM_REQUIRED \in esFlags)
           /\ \/ proc' = proc
              \/ proc # None /\ ~PollIsNone(proc) /\ proc' = None
           /\ (eff'.native # 0 => cls = "WakeLockWindows" /\ kernel32)]_vars

C3_Witness ==
    /\ cls = "WakeLockMac"
    /\ op = "release"
    /\ eff.call = "release"
    /\ eff.terms = 0
    /\ Len(helpers) > 0
    /\ proc = None

\* C4: when the last call was release(), is_active() is false, whatever calls
\* and helper exits came before it.
C4_InactiveAfterRelease == op = "release" => ~IsActive

C4_Witness ==
    /\ op = "release"
    /\ eff.terms = 1
    /\ \E i \in 1..Len(helpers) : HelperAlive(i)
    /\ ~IsActive

\* C5: acquire() never lets an exception out, and when the mechanism is not
\* there (binding not loaded, tool missing) an acquire() on an inactive lock
\* leaves is_active() false.
C5_AcquireNeverRaises ==
    [][OpStep("acquire")
        => /\ ~eff'.raised
           /\ (~IsActive /\ cls = "WakeLockWindows" /\ ~kernel32) => ~IsActive'
           /\ (~IsActive /\ cls \in {"WakeLockMac", "WakeLockLinux"} /\ ~toolPresent)
                => ~IsActive']_vars

\* C6: wherever the lock is active the release-on-exit hook is registered; while
\* the interpreter is exiting with the lock active a hook is still to run; and
\* once a normal exit is over the lock has been released.
C6_ExitHookCoversActiveLock ==
    /\ (HostAlive /\ IsActive) => atexitHooks > 0
    /\ (phase = "exiting" /\ IsActive) => exitPending > 0
    /\ phase = "exited" => ~IsActive

C6_Witness ==
    /\ phase = "exited"
    /\ op = "atexit"
    /\ eff.call = "release"
    /\ ~IsActive

\* C7: once the host process is gone, closed or crashed, nothing it acquired
\* still inhibits sleep: no helper it spawned is running and the
\* system-required flag is not set.
C7_NothingEngagedAfterHostEnds ==
    phase \in {"exited", "crashed"}
        => /\ ES_SYSTEM_REQUIRED \notin esFlags
           /\ \A i \in 1..Len(helpers) : helpers[i] # "running"

\* C8: is_active() is true exactly when the backend's mechanism is engaged.
C8_ActiveIffEngaged == HostAlive => (IsActive <=> MechanismEngaged)

\* C9: right after on_render_post or on_render_cancel the lock is inactive and
\* nothing was raised, whatever "enabled" is and whether or not the preferences
\* can be read.
C9_PostAndCancelRelease ==
    op \in {"on_render_post", "on_render_cancel"} => (~IsActive /\ ~eff.raised)

C9_Witness ==
    /\ op = "on_render_cancel"
    /\ eff.call = "release"
    /\ ~prefsAvail
    /\ ~prefs.enabled
    /\ ~IsActive

\* C10: on_render_pre reaches acquire() only when the preferences can be read
\* and "enabled" is true; otherwise it calls nothing, raises nothing and leaves
\* the backend and the OS as they were.
C10_PreGatedByEnabled ==
    [][OpStep("on_render_pre")
        => /\ (eff'.call = "acquire" => PrefsEnabled)
           /\ (~PrefsEnabled => (eff' = Quiet /\ UNCHANGED backendVars))]_vars

C10_Witness ==
    /\ op = "on_render_pre"
    /\ eff = Quiet
    /\ rendering
    /\ ~prefsAvail
    /\ prefs.enabled
    /\ ~IsActive
    /\ helpers = <<>>
    /\ ~active

\* C11: is_active() changes nothing: the active flag, the handle, the execution
\* state and the helper processes are after the call what they were before it,
\* and so is the answer of the next is_active().
C11_IsActiveChangesNothing ==
    [][OpStep("is_active")
        => /\ UNCHANGED backendVars
           /\ IsActive' = IsActive
           /\ ~eff'.raised]_vars

C11_Witness ==
    /\ cls = "WakeLockMac"
    /\ op = "is_active"
    /\ proc # None
    /\ ~PollIsNone(proc)

\* C12: of the helper processes the backend has spawned, at most one is alive
\* at any time.
C12_AtMostOneHelperAlive ==
    Cardinality({i \in 1..Len(helpers) : HelperAlive(i)}) <= 1

\* C13: once release() has returned and is_active() is false, every helper the
\* backend spawned is referenced by the handle or has been terminated: none is
\* left running without a handle to it.
C13_NoHelperLeftRunning ==
    (op = "release" /\ ~IsActive)
        => \A i \in 1..Len(helpers) : helpers[i] = "running" => proc = i

\* C14: the handlers, unregister and the exit hook call the backend's acquire()
\* only where is_active() is false and its release() only where it is true; a
\* render-pre on an active lock and a release event on an inactive one reach
\* neither the backend nor the OS.
C14_OnlyRealTransitions ==
    [][tick' # tick
        => /\ eff'.call = "acquire" => ~IsActive
           /\ eff'.call = "release" => IsActive
           /\ (IsActive /\ op' = "on_render_pre")
                => (eff' = Quiet /\ UNCHANGED backendVars)
           /\ (~IsActive /\ op' \in {"on_render_post", "on_render_cancel",
                                     "unregister", "atexit"})
                => (eff' = Quiet /\ UNCHANGED backendVars)]_vars

C14_Witness ==
    /\ op = "on_render_pre"
    /\ eff = Quiet
    /\ PrefsEnabled
    /\ rendering
    /\ jobArmed
    /\ IsActive

\* The handle refers to a helper that has exited.
DeadHandle == proc # None /\ ~PollIsNone(proc)

\* C15: when the helper behind the handle exits on its own, is_active() is
\* false from then on with the handle still in place (no release() ran); and
\* the next render-pre with "enabled", the tool there and Popen returning a
\* child spawns a fresh helper, so that the lock is active again.
C15_ExternalExitThenReacquire ==
    [][/\ (IsActive /\ tick' = tick /\ proc # None /\ helpers'[proc] = "exited")
            => (~IsActive' /\ proc' = proc /\ eff' = eff)
       /\ (DeadHandle /\ OpStep("on_render_pre") /\ PrefsEnabled /\ MechanismAnswered)
            => /\ eff'.call = "acquire"
               /\ eff'.spawns = 1
               /\ proc' # proc
               /\ helpers'[proc'] = "running"
               /\ IsActive']_vars

C15_Witness ==
    /\ cls = "WakeLockMac"
    /\ DeadHandle
    /\ ~IsActive
    /\ rendering
    /\ PrefsEnabled
    /\ toolPresent
    /\ op = "on_render_pre"
    /\ eff.spawns = 1
    /\ Len(helpers) < MaxSpawn

\* C16: nothing but a render-pre attempts an acquisition or makes an inactive
\* lock active (no automatic retry after a failed acquire); and every render-pre
\* with "enabled" on an inactive lock calls acquire() afresh, which makes the
\* lock active when the mechanism answers by then.
C16_RetryOnlyAtRenderPre ==
    [][/\ (tick' # tick /\ eff'.call = "acquire") => op' = "on_render_pre"
       /\ (~IsActive /\ IsActive') => OpStep("on_render_pre")
       /\ (~IsActive /\ OpStep("on_render_pre") /\ PrefsEnabled)
            => /\ eff'.call = "acquire"
               /\ MechanismAnswered => IsActive']_vars

C16_Witness ==
    /\ cls = "WakeLockLinux"
    /\ op = "on_render_pre"
    /\ eff = [Quiet EXCEPT !.call = "acquire"]
    /\ rendering
    /\ ~toolPresent
    /\ ~IsActive
    /\ helpers = <<>>

\* sys.platform names none of Windows, macOS, Linux.
UnknownPlatform ==
    /\ ~StartsWith(platform, <<"w", "i", "n">>)
    /\ platform # Darwin
    /\ ~StartsWith(platform, Linux)

\* C17 as claimed: on an unrecognised platform the lock is the NoOp variant:
\* nothing is ever spawned or set and is_active() is always false.
C17_UnknownPlatformIsNoOp ==
    UnknownPlatform
        => /\ ~IsActive
           /\ helpers = <<>>
           /\ esFlags = {}

\* C17 as amended: on an unrecognised platform the lock is the Linux variant,
\* never the NoOp base class; is_active() is false as long as no acquire() has
\* spawned systemd-inhibit, and nothing touches the execution state.
C17_UnknownPlatformIsLinux ==
    /\ cls # "WakeLockBase"
    /\ UnknownPlatform
        => /\ cls = "WakeLockLinux"
           /\ helpers = <<>> => ~IsActive
           /\ esFlags = {}

C17_Witness ==
    /\ UnknownPlatform
    /\ op = "on_render_pre"
    /\ eff.spawns = 1
    /\ IsActive

\* C18: from the return of unregister() until the next register() the lock is
\* inactive and none of the three render handlers is installed, whatever render
\* events the host fires in between.
C18_InactiveWhileUnregistered ==
    phase = "unregistered" => (~IsActive /\ handlers = {})

C18_Witness ==
    /\ phase = "unregistered"
    /\ op = "unregister"
    /\ eff.call = "release"
    /\ rendering
    /\ PrefsEnabled
    /\ toolPresent
    /\ ~IsActive

\* C19: a change of a preference changes nothing of the lock; an active lock
\* becomes inactive only by render-post, render-cancel, unregister or the exit
\* hook (or by its helper exiting), and an inactive one becomes active only by
\* a render-pre.
C19_PreferencesMoveNothing ==
    [][/\ prefs' # prefs
            => (UNCHANGED <<backendVars, op, eff, tick>> /\ IsActive' = IsActive)
       /\ (IsActive /\ ~IsActive')
            => \/ /\ tick' # tick
                  /\ op' \in {"on_render_post", "on_render_cancel", "unregister", "atexit"}
               \/ proc # None /\ proc' = proc /\ helpers'[proc] = "exited"
       /\ (~IsActive /\ IsActive') => OpStep("on_render_pre")]_vars

C19_Witness ==
    /\ phase = "registered"
    /\ rendering
    /\ prefsAvail
    /\ ~prefs.enabled
    /\ op = "on_render_pre"
    /\ eff.call = "acquire"
    /\ IsActive

====
